---- MODULE Spec2Model ----
(***************************************************************************)
(* A model of src/real_blockchain.py: the Token ledger, the Block with its *)
(* hash and proof-of-work search, and the Blockchain with its append,      *)
(* validation, fork-choice and snapshot operations.                        *)
(*                                                                         *)
(* SHA-256 is modelled as a collision-free digest: a digest is a record    *)
(* whose `digits` are the leading hex characters of the hex string (a      *)
(* deterministic function of the hashed content, nonce included) and whose *)
(* `pre` is the hashed content itself, standing for the rest of the        *)
(* string.  Two digests are equal exactly when their contents are equal.   *)
(***************************************************************************)
EXTENDS Integers, Sequences, FiniteSets, TLC

(* ------------------------------ bounds -------------------------------- *)

\* longest chain the append operations build
MaxChain == 3
\* largest amount passed to a ledger operation; amounts range over -1..MaxAmount
MaxAmount == 1
\* the token_supply a Blockchain is constructed with
TokenSupply == 2
\* largest total_supply a mint is allowed to reach in the model
MaxSupply == 3
\* chain difficulties range over 0..MaxDifficulty
MaxDifficulty == 1
\* number of leading hex characters of a digest that are modelled
HashDigits == 2

(* -------------------------- program constants ------------------------- *)

\* Block.__init__: difficulty: int = 4
DefaultBlockDifficulty == 4
\* hexdigest(): one character per 4 bits
HexBase == 16

PrivateKeys == {"k1", "k2"}
Amounts == (0 - 1)..MaxAmount
Difficulties == 0..MaxDifficulty
\* the values time.time() returns and the random bit strings drawn; no
\* operation compares or orders them
Times == {1}
RandBits == {1}

(* ---------------------------- CryptoUtils ----------------------------- *)

\* generate_random_bits: a bit string, named by the random draw r
generate_random_bits(r) == <<"bits", r>>

\* bitstring_to_hex: the hex form of a bit string
bitstring_to_hex(bits) == <<"hex", bits[2]>>

(* ------------------------------ KeyPair ------------------------------- *)

\* public_key = sha256(private_key)
PublicKey(priv) == <<"sha256", priv>>

\* KeyPair(private_key)
KeyPair(priv) == [private_key |-> priv, public_key |-> PublicKey(priv)]

KeyPairs == {KeyPair(k) : k \in PrivateKeys}
Addresses == {PublicKey(k) : k \in PrivateKeys}

\* KeyPair.sign: sha256(data + private_key)
Sign(kp, data) == [signed |-> data, key |-> kp.private_key]

\* KeyPair.verify
Verify(kp, data, signature) == Sign(kp, data) = signature

(* ------------------------------- Block -------------------------------- *)

\* a number drawn from the hashed content, from which the leading hex
\* characters of the digest are computed
RECURSIVE DigitsValue(_, _)
DigitsValue(digits, i) ==
    IF i > Len(digits) THEN 0
    ELSE digits[i] + HexBase * DigitsValue(digits, i + 1)

Seed(index, timestamp, data, previous_hash, signature) ==
    7 * index + 3 * timestamp + 5 * Cardinality(DOMAIN data)
      + DigitsValue(previous_hash.digits, 1) + Cardinality(DOMAIN signature) + 1

\* the leading HashDigits characters of the hex digest, first character first
Digits(m) == [i \in 1..HashDigits |-> (m \div (HexBase ^ (i - 1))) % HexBase]

\* Block._calculate_hash: sha256 of the canonical JSON of the six hashed fields
CalculateHash(b) ==
    [digits |-> Digits(Seed(b.index, b.timestamp, b.data, b.previous_hash, b.signature)
                       + b.nonce),
     pre    |-> <<b.index, b.timestamp, b.data, b.previous_hash, b.signature, b.nonce>>]

\* "0" * 64
ZeroHash == [digits |-> [i \in 1..HashDigits |-> 0], pre |-> <<>>]

\* hash[:difficulty] == '0' * difficulty
MeetsTarget(h, d) == \A i \in 1..d : h.digits[i] = 0

\* Block.__init__: the hash is computed at construction; a missing signature
\* is replaced by random bits
NewBlock(index, timestamp, data, previous_hash, signature, nonce, r) ==
    LET b0 == [index |-> index, timestamp |-> timestamp, data |-> data,
               previous_hash |-> previous_hash,
               signature |-> IF signature = <<>> THEN generate_random_bits(r)
                             ELSE signature,
               difficulty |-> DefaultBlockDifficulty, nonce |-> nonce,
               hash |-> ZeroHash]
    IN [b0 EXCEPT !.hash = CalculateHash(b0)]

\* the hash of block b with its nonce replaced by n meets the target: the
\* leading characters of CalculateHash([b EXCEPT !.nonce = n]), computed
\* without building the rest of the digest
AttemptMeetsTarget(seed, n, d) ==
    \A i \in 1..d : ((seed + n) \div (HexBase ^ (i - 1))) % HexBase = 0

\* the loop of mine_block from nonce n on: the first nonce whose hash meets
\* the target, looked for HexBase attempts at a time
RECURSIVE SearchNonce(_, _, _)
SearchNonce(seed, n, d) ==
    LET hits == {m \in n..(n + HexBase - 1) : AttemptMeetsTarget(seed, m, d)}
    IN IF hits # {} THEN CHOOSE m \in hits : \A x \in hits : m <= x
       ELSE SearchNonce(seed, n + HexBase, d)

\* mine_block that does not recompute the hash after the last increment of
\* the nonce
MineBlockStaleHash(b, d) ==
    IF MeetsTarget(b.hash, d) THEN b
    ELSE LET seed == Seed(b.index, b.timestamp, b.data, b.previous_hash, b.signature)
             n == SearchNonce(seed, b.nonce + 1, d)
         IN [b EXCEPT !.nonce = n, !.hash = CalculateHash([b EXCEPT !.nonce = n - 1])]

\* Block.mine_block: while hash[:difficulty] != target, the nonce is
\* incremented and the hash recomputed
MineBlock(b, d) ==
    IF MeetsTarget(b.hash, d) THEN b
    ELSE LET seed == Seed(b.index, b.timestamp, b.data, b.previous_hash, b.signature)
             b1 == [b EXCEPT !.nonce = SearchNonce(seed, b.nonce + 1, d)]
         IN [b1 EXCEPT !.hash = CalculateHash(b1)]

\* Block.to_dict: the difficulty field is not part of the dictionary
BlockToDict(b) ==
    [index |-> b.index, timestamp |-> b.timestamp, data |-> b.data,
     previous_hash |-> b.previous_hash, signature |-> b.signature,
     nonce |-> b.nonce, hash |-> b.hash]

\* the reconstruction used by resolve_conflicts and load_from_file:
\* Block(...) from the dictionary's fields, then block.hash = block_data["hash"]
BlockFromDict(bd) ==
    [NewBlock(bd.index, bd.timestamp, bd.data, bd.previous_hash, bd.signature,
              bd.nonce, 1)
       EXCEPT !.hash = bd.hash]

(* ------------------------------- Token -------------------------------- *)

\* defaultdict(int): reading a missing key inserts it with value 0
Touch(m, a) == IF a \in DOMAIN m THEN m ELSE m @@ (a :> 0)

\* the value a read returns
Get(m, a) == IF a \in DOMAIN m THEN m[a] ELSE 0

\* m[a] = v
Put(m, a, v) == [x \in DOMAIN m \cup {a} |-> IF x = a THEN v ELSE m[x]]

\* defaultdict(lambda: defaultdict(int)): reading allowed[o][s] inserts o and s
TouchAllowed(al, o, s) ==
    LET inner == IF o \in DOMAIN al THEN al[o] ELSE <<>>
    IN Put(al, o, Touch(inner, s))

GetAllowed(al, o, s) == IF o \in DOMAIN al THEN Get(al[o], s) ELSE 0

\* Token.__init__
NewToken(name, symbol, total_supply) ==
    [name |-> name, symbol |-> symbol, decimals |-> 18,
     total_supply |-> total_supply, balances |-> <<>>, allowed |-> <<>>]

\* Token.initial_distribution that credits nobody
InitialDistributionToNobody(tok, creator_address) == tok

\* Token.initial_distribution
InitialDistribution(tok, creator_address) ==
    [tok EXCEPT !.balances = Put(tok.balances, creator_address, tok.total_supply)]

\* Token.transfer without the credit of the recipient
TokenTransferNoCredit(tok, sender, recipient, amount) ==
    LET b0 == Touch(tok.balances, sender)
    IN IF b0[sender] < amount
       THEN [ok |-> FALSE, token |-> [tok EXCEPT !.balances = b0]]
       ELSE [ok |-> TRUE,
             token |-> [tok EXCEPT !.balances = Put(b0, sender, b0[sender] - amount)]]

\* Token.transfer: the returned flag and the token after the call
TokenTransfer(tok, sender, recipient, amount) ==
    LET b0 == Touch(tok.balances, sender)
    IN IF b0[sender] < amount
       THEN [ok |-> FALSE, token |-> [tok EXCEPT !.balances = b0]]
       ELSE LET b1 == Put(b0, sender, b0[sender] - amount)
                b2 == Put(b1, recipient, Get(b1, recipient) + amount)
            IN [ok |-> TRUE, token |-> [tok EXCEPT !.balances = b2]]

\* Token.approve adding the amount to the allowance
TokenApproveAdds(tok, owner, spender, amount) ==
    LET a0 == TouchAllowed(tok.allowed, owner, spender)
    IN [ok |-> TRUE,
        token |-> [tok EXCEPT !.allowed =
                      Put(a0, owner, Put(a0[owner], spender,
                                         a0[owner][spender] + amount))]]

\* Token.approve
TokenApprove(tok, owner, spender, amount) ==
    LET a0 == TouchAllowed(tok.allowed, owner, spender)
    IN [ok |-> TRUE,
        token |-> [tok EXCEPT !.allowed = Put(a0, owner, Put(a0[owner], spender, amount))]]

\* Token.transfer_from without the decrease of the allowance
TokenTransferFromKeepsAllowance(tok, spender, owner, recipient, amount) ==
    LET b0 == Touch(tok.balances, owner)
    IN IF b0[owner] < amount
       THEN [ok |-> FALSE, token |-> [tok EXCEPT !.balances = b0]]
       ELSE LET a0 == TouchAllowed(tok.allowed, owner, spender)
            IN IF a0[owner][spender] < amount
               THEN [ok |-> FALSE, token |-> [tok EXCEPT !.balances = b0, !.allowed = a0]]
               ELSE LET b1 == Put(b0, owner, b0[owner] - amount)
                        b2 == Put(b1, recipient, Get(b1, recipient) + amount)
                    IN [ok |-> TRUE,
                        token |-> [tok EXCEPT !.balances = b2, !.allowed = a0]]

\* Token.transfer_from: `or` reads the allowance only when the balance suffices
TokenTransferFrom(tok, spender, owner, recipient, amount) ==
    LET b0 == Touch(tok.balances, owner)
    IN IF b0[owner] < amount
       THEN [ok |-> FALSE, token |-> [tok EXCEPT !.balances = b0]]
       ELSE LET a0 == TouchAllowed(tok.allowed, owner, spender)
            IN IF a0[owner][spender] < amount
               THEN [ok |-> FALSE, token |-> [tok EXCEPT !.balances = b0, !.allowed = a0]]
               ELSE LET b1 == Put(b0, owner, b0[owner] - amount)
                        b2 == Put(b1, recipient, Get(b1, recipient) + amount)
                        a1 == Put(a0, owner, Put(a0[owner], spender, a0[owner][spender] - amount))
                    IN [ok |-> TRUE,
                        token |-> [tok EXCEPT !.balances = b2, !.allowed = a1]]

\* Token.to_dict
TokenToDict(tok) ==
    [name |-> tok.name, symbol |-> tok.symbol, decimals |-> tok.decimals,
     total_supply |-> tok.total_supply, balances |-> tok.balances,
     allowed |-> tok.allowed]

\* Token.from_dict
TokenFromDict(td) ==
    [name |-> td.name, symbol |-> td.symbol, decimals |-> td.decimals,
     total_supply |-> td.total_supply, balances |-> td.balances,
     allowed |-> td.allowed]

(* ----------------------------- Blockchain ----------------------------- *)

VARIABLES
    chain,       \* Blockchain.chain: the sequence of blocks
    difficulty,  \* Blockchain.difficulty
    pending,     \* Blockchain.pending_transactions
    token,       \* Blockchain.token
    last,        \* the last operation called and how it ended
    mining,      \* the call of add_block that has constructed its block and
                 \* not yet appended it (<<>>: none)
    racing       \* the same for a call made by a second thread

vars == <<chain, difficulty, pending, token, last, mining, racing>>

\* Blockchain.last_block; defined on a non-empty chain only
LastBlock(ch) == ch[Len(ch)]

\* the data of the genesis block
GenesisData(tok, creator_address, sig_hex, t) ==
    [message |-> "genesis", timestamp |-> t, creator |-> "creator",
     creator_address |-> creator_address, signature_key |-> sig_hex,
     token_info |-> [name |-> tok.name, symbol |-> tok.symbol,
                     total_supply |-> tok.total_supply,
                     initial_holder |-> creator_address]]

\* Blockchain._create_genesis_block: the mined genesis block
GenesisBlock(tok, d, creator_priv, t, r) ==
    LET genesis_signature == generate_random_bits(r)
        sig_hex == bitstring_to_hex(genesis_signature)
        creator_address == KeyPair(creator_priv).public_key
    IN MineBlock(NewBlock(0, t, GenesisData(tok, creator_address, sig_hex, t),
                          ZeroHash, genesis_signature, 0, r), d)

\* Blockchain.__init__: the object after construction
NewBlockchain(d, name, symbol, supply, creator_priv, t, r) ==
    LET tok == InitialDistribution(NewToken(name, symbol, supply),
                                   KeyPair(creator_priv).public_key)
    IN [chain |-> <<GenesisBlock(tok, d, creator_priv, t, r)>>,
        difficulty |-> d, pending |-> <<>>, token |-> tok]

\* add_block with a key pair: data["public_key"] and data["signature"] are set
\* after the data was signed
SignedData(data, kp) ==
    ("public_key" :> kp.public_key) @@ ("signature" :> Sign(kp, data)) @@ data

\* add_block that links the new block to the hash the last block links to
AddBlockToStaleLink(ch, d, data, signed, kp, t, r) ==
    LET signature == IF signed THEN Sign(kp, data) ELSE <<>>
        stored == IF signed THEN SignedData(data, kp) ELSE data
        new_block == NewBlock(Len(ch), t, stored, LastBlock(ch).previous_hash,
                              signature, 0, r)
    IN Append(ch, MineBlock(new_block, d))

\* Blockchain.add_block up to the construction of new_block: index and
\* previous_hash are read from the chain as it is now
ConstructBlock(ch, data, signed, kp, t, r) ==
    LET signature == IF signed THEN Sign(kp, data) ELSE <<>>
        stored == IF signed THEN SignedData(data, kp) ELSE data
    IN NewBlock(Len(ch), t, stored, LastBlock(ch).hash, signature, 0, r)

\* Blockchain.add_block on a non-empty chain: the chain after the append.
\* signed tells whether a key pair was passed.
AddBlockTo(ch, d, data, signed, kp, t, r) ==
    Append(ch, MineBlock(ConstructBlock(ch, data, signed, kp, t, r), d))

\* Blockchain.is_chain_valid
IsChainValid(ch, d) ==
    \A i \in 2..Len(ch) :
        /\ ch[i].hash = CalculateHash(ch[i])
        /\ ch[i].previous_hash = ch[i - 1].hash
        /\ MeetsTarget(ch[i].hash, d)

\* the Blockchain object as one value
State == [chain |-> chain, difficulty |-> difficulty, pending |-> pending,
          token |-> token]

\* Blockchain.add_block: raises IndexError (last_block) on an empty chain
add_block(bc, data, signed, kp, t, r) ==
    IF bc.chain = <<>>
    THEN [ret |-> "raise", bc |-> bc]
    ELSE [ret |-> "ok",
          bc |-> [bc EXCEPT !.chain = AddBlockTo(bc.chain, bc.difficulty, data,
                                                 signed, kp, t, r)]]

\* the transaction record of transfer_token, signed by the sender
TransferRecord(tok, kp, recipient, amount, t) ==
    LET transaction == [type |-> "token_transfer", sender |-> kp.public_key,
                        recipient |-> recipient, amount |-> amount,
                        token |-> tok.symbol, timestamp |-> t]
    IN ("signature" :> Sign(kp, transaction)) @@ transaction

\* Blockchain.transfer_token without the two balance tests
transfer_tokenUnchecked(bc, kp, recipient, amount, t, r) ==
    LET sender == kp.public_key
        b0 == Touch(bc.token.balances, sender)
        b1 == Put(b0, sender, b0[sender] - amount)
        b2 == Put(b1, recipient, Get(b1, recipient) + amount)
        tok == [bc.token EXCEPT !.balances = b2]
    IN add_block([bc EXCEPT !.token = tok],
                 TransferRecord(tok, kp, recipient, amount, t), TRUE, kp, t, r)

\* Blockchain.transfer_token without the call of add_block
transfer_tokenNoBlock(bc, kp, recipient, amount, t, r) ==
    LET sender == kp.public_key
        b0 == Touch(bc.token.balances, sender)
        tok0 == [bc.token EXCEPT !.balances = b0]
    IN IF b0[sender] < amount
       THEN [ret |-> "fail", message |-> "insufficient balance",
             bc |-> [bc EXCEPT !.token = tok0]]
       ELSE [ret |-> "ok",
             bc |-> [bc EXCEPT !.token = TokenTransfer(tok0, sender, recipient,
                                                       amount).token]]

\* Blockchain.transfer_token appending a block for a refused transfer too
transfer_tokenBlockAnyway(bc, kp, recipient, amount, t, r) ==
    LET sender == kp.public_key
        b0 == Touch(bc.token.balances, sender)
        tok0 == [bc.token EXCEPT !.balances = b0]
    IN IF b0[sender] < amount
       THEN [ret |-> "fail", message |-> "insufficient balance",
             bc |-> add_block([bc EXCEPT !.token = tok0],
                              TransferRecord(tok0, kp, recipient, amount, t),
                              TRUE, kp, t, r).bc]
       ELSE add_block([bc EXCEPT !.token =
                           TokenTransfer(tok0, sender, recipient, amount).token],
                      TransferRecord(tok0, kp, recipient, amount, t),
                      TRUE, kp, t, r)

\* Blockchain.transfer_token: ret is the success flag of the returned
\* dictionary ("raise": the exception of add_block), message its message
transfer_token(bc, kp, recipient, amount, t, r) ==
    LET sender == kp.public_key
        b0 == Touch(bc.token.balances, sender)
        tok0 == [bc.token EXCEPT !.balances = b0]
    IN IF b0[sender] < amount
       THEN [ret |-> "fail", message |-> "insufficient balance",
             bc |-> [bc EXCEPT !.token = tok0]]
       ELSE LET res == TokenTransfer(tok0, sender, recipient, amount)
            IN IF ~res.ok
               THEN [ret |-> "fail", message |-> "transfer failed",
                     bc |-> [bc EXCEPT !.token = res.token]]
               ELSE add_block([bc EXCEPT !.token = res.token],
                              TransferRecord(res.token, kp, recipient, amount, t),
                              TRUE, kp, t, r)

\* chain[0].data.get("creator_address")
CreatorAddress(ch) ==
    IF "creator_address" \in DOMAIN ch[1].data THEN ch[1].data.creator_address
    ELSE <<>>

\* the mint record of mint_tokens, signed by the minter
MintRecord(tok, kp, recipient, amount, t) ==
    LET mint_record == [type |-> "token_mint", minter |-> kp.public_key,
                        recipient |-> recipient, amount |-> amount,
                        token |-> tok.symbol,
                        new_total_supply |-> tok.total_supply, timestamp |-> t]
    IN ("signature" :> Sign(kp, mint_record)) @@ mint_record

\* Blockchain.mint_tokens without the test of the minter's address
mint_tokensByAnyone(bc, kp, recipient, amount, t, r) ==
    IF bc.chain = <<>>
    THEN [ret |-> "raise", bc |-> bc]
    ELSE LET tok1 == [bc.token EXCEPT
                        !.total_supply = bc.token.total_supply + amount,
                        !.balances = Put(bc.token.balances, recipient,
                                         Get(bc.token.balances, recipient) + amount)]
         IN add_block([bc EXCEPT !.token = tok1],
                      MintRecord(tok1, kp, recipient, amount, t), TRUE, kp, t, r)

\* Blockchain.mint_tokens without the increase of total_supply
mint_tokensSupplyKept(bc, kp, recipient, amount, t, r) ==
    IF bc.chain = <<>>
    THEN [ret |-> "raise", bc |-> bc]
    ELSE IF CreatorAddress(bc.chain) # kp.public_key
    THEN [ret |-> "fail", bc |-> bc]
    ELSE LET tok1 == [bc.token EXCEPT
                        !.balances = Put(bc.token.balances, recipient,
                                         Get(bc.token.balances, recipient) + amount)]
         IN add_block([bc EXCEPT !.token = tok1],
                      MintRecord(tok1, kp, recipient, amount, t), TRUE, kp, t, r)

\* Blockchain.mint_tokens: chain[0] raises IndexError on an empty chain
mint_tokens(bc, kp, recipient, amount, t, r) ==
    IF bc.chain = <<>>
    THEN [ret |-> "raise", bc |-> bc]
    ELSE IF CreatorAddress(bc.chain) # kp.public_key
    THEN [ret |-> "fail", bc |-> bc]
    ELSE LET tok1 == [bc.token EXCEPT
                        !.total_supply = bc.token.total_supply + amount,
                        !.balances = Put(bc.token.balances, recipient,
                                         Get(bc.token.balances, recipient) + amount)]
         IN add_block([bc EXCEPT !.token = tok1],
                      MintRecord(tok1, kp, recipient, amount, t), TRUE, kp, t, r)

\* the signed transaction add_transaction appends to the pending list
PendingTransaction(sender, recipient, amount, kp, t) ==
    LET transaction == [sender |-> sender, recipient |-> recipient,
                        amount |-> amount, timestamp |-> t]
    IN ("signature" :> Sign(kp, transaction)) @@ ("public_key" :> kp.public_key)
         @@ transaction

\* Blockchain.add_transaction: the append comes before last_block is read
add_transaction(bc, sender, recipient, amount, kp, t) ==
    LET bc1 == [bc EXCEPT !.pending =
                    Append(bc.pending, PendingTransaction(sender, recipient, amount, kp, t))]
    IN IF bc.chain = <<>>
       THEN [ret |-> "raise", val |-> 0, bc |-> bc1]
       ELSE [ret |-> "ok", val |-> LastBlock(bc.chain).index + 1, bc |-> bc1]

\* the reward transaction of mine_pending_transactions
RewardTransaction(miner_address, t) ==
    [sender |-> "0", recipient |-> miner_address, amount |-> 1, timestamp |-> t,
     type |-> "reward"]

\* Blockchain.mine_pending_transactions without the reset of the pending list
mine_pending_transactionsKeepsPending(bc, miner_address, t, r) ==
    IF bc.chain = <<>>
    THEN [ret |-> "raise", bc |-> bc]
    ELSE LET transactions == Append(bc.pending, RewardTransaction(miner_address, t))
             new_block == NewBlock(Len(bc.chain), t, [transactions |-> transactions],
                                   LastBlock(bc.chain).hash, <<>>, 0, r)
         IN [ret |-> "ok",
             bc |-> [bc EXCEPT !.chain = Append(bc.chain,
                                                MineBlock(new_block, bc.difficulty))]]

\* Blockchain.mine_pending_transactions
mine_pending_transactions(bc, miner_address, t, r) ==
    IF bc.chain = <<>>
    THEN [ret |-> "raise", bc |-> bc]
    ELSE LET transactions == Append(bc.pending, RewardTransaction(miner_address, t))
             new_block == NewBlock(Len(bc.chain), t, [transactions |-> transactions],
                                   LastBlock(bc.chain).hash, <<>>, 0, r)
         IN [ret |-> "ok",
             bc |-> [bc EXCEPT !.chain = Append(bc.chain, MineBlock(new_block, bc.difficulty)),
                               !.pending = <<>>]]

\* Blockchain.get_chain_data
ChainData(ch) == [i \in 1..Len(ch) |-> BlockToDict(ch[i])]

\* the blocks rebuilt from a list of block dictionaries
ChainFromData(cd) == [i \in 1..Len(cd) |-> BlockFromDict(cd[i])]

\* resolve_conflicts, lines 719-729: the check of a rebuilt candidate
CandidateValid(c, d) ==
    \A i \in 2..Len(c) :
        /\ c[i].previous_hash = c[i - 1].hash
        /\ c[i].hash = CalculateHash(c[i])
        /\ MeetsTarget(c[i].hash, d)

\* the loop of resolve_conflicts taking a candidate as long as the longest so
\* far
RECURSIVE ResolveLoopNotShorter(_, _, _, _, _)
ResolveLoopNotShorter(chains, i, max_length, new_chain, d) ==
    IF i > Len(chains) THEN new_chain
    ELSE LET chain_data == chains[i]
             length == Len(chain_data)
         IN IF length >= max_length /\ CandidateValid(ChainFromData(chain_data), d)
            THEN ResolveLoopNotShorter(chains, i + 1, length, ChainFromData(chain_data), d)
            ELSE ResolveLoopNotShorter(chains, i + 1, max_length, new_chain, d)

\* the loop of resolve_conflicts without max_length = length
RECURSIVE ResolveLoopKeepsLength(_, _, _, _, _)
ResolveLoopKeepsLength(chains, i, max_length, new_chain, d) ==
    IF i > Len(chains) THEN new_chain
    ELSE LET chain_data == chains[i]
             length == Len(chain_data)
         IN IF length > max_length /\ CandidateValid(ChainFromData(chain_data), d)
            THEN ResolveLoopKeepsLength(chains, i + 1, max_length,
                                        ChainFromData(chain_data), d)
            ELSE ResolveLoopKeepsLength(chains, i + 1, max_length, new_chain, d)

\* resolve_conflicts, lines 700-733: the loop over the candidates from the
\* i-th on; new_chain = <<>> stands for None
RECURSIVE ResolveLoop(_, _, _, _, _)
ResolveLoop(chains, i, max_length, new_chain, d) ==
    IF i > Len(chains) THEN new_chain
    ELSE LET chain_data == chains[i]
             length == Len(chain_data)
         IN IF length > max_length /\ CandidateValid(ChainFromData(chain_data), d)
            THEN ResolveLoop(chains, i + 1, length, ChainFromData(chain_data), d)
            ELSE ResolveLoop(chains, i + 1, max_length, new_chain, d)

\* Blockchain.resolve_conflicts
resolve_conflicts(bc, chains) ==
    LET new_chain == ResolveLoop(chains, 1, Len(bc.chain), <<>>, bc.difficulty)
    IN IF new_chain # <<>>
       THEN [ret |-> "true", bc |-> [bc EXCEPT !.chain = new_chain]]
       ELSE [ret |-> "false", bc |-> bc]

\* Blockchain.save_to_file: the content written
Snapshot(bc) ==
    [kind |-> "data", chain |-> ChainData(bc.chain), token |-> TokenToDict(bc.token)]

\* Blockchain.load_from_file: file is the content found ("absent": no file,
\* "corrupt": not JSON or a key missing); k, t, r are the random draws and the
\* clock of the constructor that runs in every branch
load_from_file(file, d, k, t, r) ==
    IF file.kind \in {"absent", "corrupt"}
    THEN NewBlockchain(d, "MyToken", "MTK", TokenSupply, k, t, r)
    ELSE LET blockchain == NewBlockchain(d, file.token.name, file.token.symbol,
                                         file.token.total_supply, k, t, r)
         IN [blockchain EXCEPT !.chain = ChainFromData(file.chain),
                               !.token = TokenFromDict(file.token)]

(* ------------------- inputs from outside the program ------------------ *)

\* longest pending list
MaxPending == 1

\* the data of a block a peer (or the add_block command) adds
PlainData == [message |-> "m"]

\* a chain extended by n honestly mined blocks
RECURSIVE Extend(_, _, _)
Extend(ch, d, n) ==
    IF n = 0 THEN ch
    ELSE Extend(AddBlockTo(ch, d, PlainData, FALSE, KeyPair("k1"), 1, 1), d, n - 1)

\* the chain of another node: its own genesis block, n blocks after it
ForeignChain(d, k, n) ==
    Extend(NewBlockchain(d, "MyToken", "MTK", TokenSupply, k, 1, 1).chain, d, n)

\* block i of a list of block dictionaries with one field replaced
Tamper(cd, i, field, v) == [cd EXCEPT ![i] = [@ EXCEPT ![field] = v]]

\* the last block of ch replaced by a block mined on the block before ch's tip:
\* its hash is right and meets the target, its link is not the tip's hash
Sibling(ch, d) ==
    LET n == Len(ch)
        b == MineBlock(NewBlock(n, 1, PlainData, ch[n - 1].hash, <<>>, 0, 1), d)
    IN Append(ch, [b EXCEPT !.index = n])

\* ch with one more block that was never mined
Unmined(ch) ==
    Append(ch, NewBlock(Len(ch), 1, PlainData, LastBlock(ch).hash, <<>>, 0, 1))

\* the chains a peer builds, as lists of block dictionaries, seen from a node
\* whose chain is ch: the chain itself (a chain of the peer's own when ch is
\* empty), its honest extensions by one and two blocks, another node's chain
\* of the length of the first extension, another node's chain of the genesis
\* block alone, and two chains whose last block has a right hash but links to
\* the wrong block, or was never mined
Peer(ch, d) ==
    LET base == IF ch = <<>> THEN ForeignChain(d, "k2", 0) ELSE ch
        e1 == Extend(base, d, 1)
    IN [base |-> ChainData(base), e1 |-> ChainData(e1),
        e2 |-> ChainData(Extend(e1, d, 1)),
        foreign |-> ChainData(ForeignChain(d, "k2", Len(base))),
        short |-> ChainData(ForeignChain(d, "k2", 0)),
        sibling |-> ChainData(Sibling(e1, d)),
        unmined |-> ChainData(Unmined(e1))]

HonestCandidates(p) == {p.base, p.e1, p.e2, p.foreign, p.short}

\* the extension by two blocks with one field of its last block replaced: a
\* broken link, a hash that is not the block's, a changed nonce, a changed
\* payload
TamperedTip(p) ==
    LET n == Len(p.e2)
    IN {Tamper(p.e2, n, "previous_hash", ZeroHash),
        Tamper(p.e2, n, "hash", p.e2[n - 1].hash),
        Tamper(p.e2, n, "nonce", p.e2[n].nonce + 1),
        Tamper(p.e2, n, "data", [message |-> "x"])}

\* the same extension with one field of its first block replaced
TamperedGenesis(p) ==
    {Tamper(p.e2, 1, "data", [message |-> "x"]),
     Tamper(p.e2, 1, "previous_hash", p.e2[1].hash),
     Tamper(p.e2, 1, "nonce", p.e2[1].nonce + 1)}

Misbuilt(p) == {p.sibling, p.unmined}

Candidates(p) ==
    HonestCandidates(p) \cup TamperedTip(p) \cup TamperedGenesis(p) \cup Misbuilt(p)

\* the lists of candidates passed to resolve_conflicts: no candidate, one
\* candidate, or two in either order (the first honest or misbuilt)
CandidateLists(ch, d) ==
    LET p == Peer(ch, d)
    IN {<<>>} \cup {<<c>> : c \in Candidates(p)}
         \cup {<<c1, c2>> : c1 \in HonestCandidates(p) \cup Misbuilt(p),
                            c2 \in HonestCandidates(p)}

\* the contents load_from_file may find: no file, a corrupt file, the
\* snapshot save_to_file wrote, and that snapshot with the previous_hash of
\* its last block replaced by that block's hash
Files(bc) ==
    LET snap == Snapshot(bc)
        n == Len(snap.chain)
    IN {[kind |-> "absent"], [kind |-> "corrupt"], snap}
       \cup (IF n = 0 THEN {}
             ELSE {[snap EXCEPT !.chain = Tamper(snap.chain, n, "previous_hash",
                                                 snap.chain[n].hash)]})

(* ------------------------------ actions ------------------------------- *)

\* the key pair drawn by _create_genesis_block
CreatorKeys == {"k1"}

\* the (owner, spender) pairs of the allowance operations
Approvals == {<<PublicKey("k1"), PublicKey("k2")>>}

\* the amount of the token operations where the chain, not the ledger, is
\* looked at
ChainAmounts == {1}

\* the recipient of those operations
ChainRecipients == {PublicKey("k2")}

Init ==
    \E d \in Difficulties, k \in CreatorKeys, t \in Times, r \in RandBits :
        LET bc == NewBlockchain(d, "MyToken", "MTK", TokenSupply, k, t, r)
        IN /\ chain = bc.chain
           /\ difficulty = bc.difficulty
           /\ pending = bc.pending
           /\ token = bc.token
           /\ last = [op |-> "init", ret |-> "ok"]
           /\ mining = <<>>
           /\ racing = <<>>

\* the program's state after a call that returned res
Becomes(op, res) ==
    /\ chain' = res.bc.chain
    /\ difficulty' = res.bc.difficulty
    /\ pending' = res.bc.pending
    /\ token' = res.bc.token
    /\ last' = [op |-> op, ret |-> res.ret]
    /\ mining' = mining
    /\ racing' = racing

\* the chain, the pending list, the balances and the allowances stay within
\* the bounds of the model
InRange(bc) ==
    /\ Len(bc.chain) <= MaxChain
    /\ Len(bc.pending) <= MaxPending
    /\ bc.token.total_supply \in (0 - MaxSupply)..MaxSupply
    /\ \A a \in DOMAIN bc.token.balances :
           bc.token.balances[a] \in (0 - MaxSupply)..MaxSupply
    /\ \A o \in DOMAIN bc.token.allowed : \A sp \in DOMAIN bc.token.allowed[o] :
           bc.token.allowed[o][sp] \in Amounts

\* the add_block command: data with or without a key pair
AddBlock ==
    \E signed \in BOOLEAN, t \in Times, r \in RandBits :
        LET res == add_block(State, PlainData, signed, KeyPair("k1"), t, r)
        IN InRange(res.bc) /\ Becomes("add_block", res)

\* transfer_token to a recipient of recs with an amount of amts
TransferToken(recs, amts) ==
    \E kp \in KeyPairs, recipient \in recs, amount \in amts,
       t \in Times, r \in RandBits :
        LET res == transfer_token(State, kp, recipient, amount, t, r)
        IN InRange(res.bc) /\ Becomes("transfer_token", res)

\* mint_tokens to a recipient of recs with an amount of amts
MintTokens(recs, amts) ==
    \E kp \in KeyPairs, recipient \in recs, amount \in amts,
       t \in Times, r \in RandBits :
        LET res == mint_tokens(State, kp, recipient, amount, t, r)
        IN InRange(res.bc) /\ Becomes("mint_tokens", res)

\* Token.approve called on the node's token
Approve ==
    \E pair \in Approvals, amount \in Amounts :
        LET res == TokenApprove(token, pair[1], pair[2], amount)
            bc == [State EXCEPT !.token = res.token]
        IN InRange(bc) /\ Becomes("approve", [ret |-> "true", bc |-> bc])

\* Token.transfer_from called on the node's token
TransferFrom ==
    \E pair \in Approvals, recipient \in Addresses, amount \in Amounts :
        LET res == TokenTransferFrom(token, pair[2], pair[1], recipient, amount)
            bc == [State EXCEPT !.token = res.token]
        IN InRange(bc)
           /\ Becomes("transfer_from",
                      [ret |-> IF res.ok THEN "true" ELSE "false", bc |-> bc])

AddTransaction ==
    \E recipient \in ChainRecipients, t \in Times :
        LET kp == KeyPair("k1")
            res == add_transaction(State, kp.public_key, recipient, 1, kp, t)
        IN InRange(res.bc) /\ Becomes("add_transaction", res)

MinePendingTransactions ==
    \E miner_address \in ChainRecipients, t \in Times, r \in RandBits :
        LET res == mine_pending_transactions(State, miner_address, t, r)
        IN InRange(res.bc) /\ Becomes("mine_pending_transactions", res)

ResolveConflicts ==
    \E chains \in CandidateLists(chain, difficulty) :
        LET res == resolve_conflicts(State, chains)
        IN InRange(res.bc) /\ Becomes("resolve_conflicts", res)

\* load_from_file with the difficulty the node runs with
LoadFromFile ==
    \E file \in Files(State), k \in CreatorKeys, t \in Times, r \in RandBits :
        Becomes("load_from_file",
                [ret |-> file.kind, bc |-> load_from_file(file, difficulty, k, t, r)])

\* the ledger operations, on a chain of the highest difficulty
InitLedger == Init /\ difficulty = MaxDifficulty

NextLedger ==
    \/ TransferToken(Addresses, Amounts) \/ MintTokens(Addresses, Amounts)
    \/ Approve \/ TransferFrom

SpecLedger == InitLedger /\ [][NextLedger]_vars

\* the operations that append blocks to the local chain
NextChain ==
    \/ AddBlock \/ TransferToken(ChainRecipients, ChainAmounts)
    \/ MintTokens(ChainRecipients, ChainAmounts) \/ AddTransaction
    \/ MinePendingTransactions

SpecChain == Init /\ [][NextChain]_vars

\* every operation that changes the chain of a node
Next ==
    \/ AddBlock \/ TransferToken(ChainRecipients, ChainAmounts)
    \/ MintTokens(ChainRecipients, ChainAmounts) \/ AddTransaction
    \/ MinePendingTransactions \/ ResolveConflicts \/ LoadFromFile

Spec == Init /\ [][Next]_vars

\* the appending operations and the fork choice
NextResolve ==
    \/ AddBlock \/ TransferToken(ChainRecipients, ChainAmounts)
    \/ MintTokens(ChainRecipients, ChainAmounts) \/ AddTransaction
    \/ MinePendingTransactions \/ ResolveConflicts

SpecResolve == Init /\ [][NextResolve]_vars

(* ------------------------------- claims ------------------------------- *)

\* sum(m.values())
RECURSIVE SumOver(_, _)
SumOver(m, keys) ==
    IF keys = {} THEN 0
    ELSE LET a == CHOOSE x \in keys : TRUE
         IN m[a] + SumOver(m, keys \ {a})

SumBalances(tok) == SumOver(tok.balances, DOMAIN tok.balances)

\* block b records a token operation of the given type
IsType(b, ty) == "type" \in DOMAIN b.data /\ b.data.type = ty

\* C1: after every transfer, transferFrom and mint, successful or failed and
\* with any amount, the balances of the ledger add up to total_supply.
C1_SumIsTotalSupply == SumBalances(token) = token.total_supply

\* C1: a transferFrom has just succeeded on a ledger that a mint has grown
\* and a transfer has changed.
C1_Witness ==
    /\ last = [op |-> "transfer_from", ret |-> "true"]
    /\ token.total_supply > TokenSupply
    /\ \E i \in 1..Len(chain) : IsType(chain[i], "token_transfer")
    /\ \E i \in 1..Len(chain) : IsType(chain[i], "token_mint")

\* C2: no address ever holds a negative balance, whatever the amounts passed
\* to transfer, transferFrom and mint.
C2_NoNegativeBalance == \A a \in DOMAIN token.balances : token.balances[a] >= 0

\* C3: in every state of the local chain each block after the first links to
\* the stored hash of the block before it, and the first block links to the
\* all-zero sentinel.
C3_EveryBlockLinked ==
    /\ chain # <<>> => chain[1].previous_hash = ZeroHash
    /\ \A i \in 2..Len(chain) : chain[i].previous_hash = chain[i - 1].hash

\* C4: in every state the stored hash of every block of the local chain, the
\* genesis block included, is the hash recomputed from the block's fields.
C4_StoredHashIsRecomputed ==
    \A i \in 1..Len(chain) : chain[i].hash = CalculateHash(chain[i])

\* the block add_block or mine_pending_transactions would mine next on chain
\* ch at difficulty d, before it is mined
NextCandidate(ch) == NewBlock(Len(ch), 1, PlainData, LastBlock(ch).hash, <<>>, 0, 1)

\* C5: when mine_block(d) returns, the stored hash is the hash of the block
\* with its final nonce and its first d characters are '0'; so it is for
\* every block of a chain built by genesis creation, add_block, the token
\* operations and mine_pending_transactions, with d the chain's difficulty.
C5_MinedHashMeetsTarget ==
    /\ \A i \in 1..Len(chain) :
           /\ chain[i].hash = CalculateHash(chain[i])
           /\ MeetsTarget(chain[i].hash, difficulty)
    /\ \A d \in Difficulties :
           LET b == MineBlock(NextCandidate(chain), d)
           IN b.hash = CalculateHash(b) /\ MeetsTarget(b.hash, d)

\* C5: a chain of positive difficulty holds the genesis block, a block of
\* add_block and a block of mine_pending_transactions, and the search moved
\* the nonce of each of them.
C5_Witness ==
    /\ difficulty >= 1
    /\ Len(chain) = 3
    /\ \A i \in 1..3 : chain[i].nonce > 0
    /\ \E i \in 2..3 : chain[i].data = PlainData
    /\ \E i \in 2..3 : "transactions" \in DOMAIN chain[i].data

Replacements(b, field) ==
    IF field = "data" THEN {[message |-> "x"]} \ {b.data}
    ELSE IF field = "nonce" THEN {b.nonce + 1}
    ELSE {ZeroHash, CalculateHash([b EXCEPT !.nonce = b.nonce + 1])} \ {b[field]}

\* C7: changing any one of payload, previous_hash, nonce or hash of any one
\* block of a valid chain, the first block included, makes is_chain_valid()
\* false.
C7_AnyChangeIsDetected ==
    IsChainValid(chain, difficulty) =>
        \A i \in 1..Len(chain) :
            \A field \in {"data", "previous_hash", "nonce", "hash"} :
                \A v \in Replacements(chain[i], field) :
                    ~IsChainValid([chain EXCEPT ![i] = [@ EXCEPT ![field] = v]],
                                  difficulty)

\* is_chain_valid() on the chain rebuilt from a candidate, at the node's
\* difficulty
ValidCandidate(c) == IsChainValid(ChainFromData(c), difficulty)

\* the candidates of a list that are valid and strictly longer than the
\* local chain
ValidLonger(chains) ==
    {i \in 1..Len(chains) : Len(chains[i]) > Len(chain) /\ ValidCandidate(chains[i])}

LinkBroken(c, i) == i >= 2 /\ c[i].previous_hash # c[i - 1].hash
HashWrong(c, i) == c[i].hash # CalculateHash(c[i])
TargetMissed(c, i) == ~MeetsTarget(c[i].hash, difficulty)

\* C9: resolve_conflicts adopts no candidate with a broken link, a stored
\* hash that is not the recomputed one, or a hash missing the proof-of-work
\* prefix at any position, whatever its length; it accepts exactly the
\* candidates is_chain_valid accepts, and is_chain_valid() holds of the local
\* chain after every resolve.
C9_DefectiveNeverAdopted ==
    \A chains \in CandidateLists(chain, difficulty) :
        LET res == resolve_conflicts(State, chains)
        IN /\ \A k \in 1..Len(chains) :
                  LET c == ChainFromData(chains[k])
                  IN /\ CandidateValid(c, difficulty) = IsChainValid(c, difficulty)
                     /\ (\E i \in 1..Len(c) :
                            LinkBroken(c, i) \/ HashWrong(c, i) \/ TargetMissed(c, i))
                          => ~(res.ret = "true" /\ res.bc.chain = c)
           /\ IsChainValid(res.bc.chain, res.bc.difficulty)

\* the greatest of a non-empty set of numbers
Max(S) == CHOOSE m \in S : \A x \in S : x <= m

EmptyLedger == [total_supply |-> 0, balances |-> <<>>]

\* the initial distribution recorded in the genesis block's token_info
ReplayGenesis(b) ==
    IF "token_info" \in DOMAIN b.data
    THEN [total_supply |-> b.data.token_info.total_supply,
          balances |-> Put(<<>>, b.data.token_info.initial_holder,
                           b.data.token_info.total_supply)]
    ELSE EmptyLedger

\* the effect transfer_token and mint_tokens had on the ledger when they
\* wrote the record of block b; any other block leaves the ledger alone
ReplayBlock(led, b) ==
    IF IsType(b, "token_transfer")
    THEN LET b1 == Put(led.balances, b.data.sender,
                       Get(led.balances, b.data.sender) - b.data.amount)
         IN [led EXCEPT !.balances = Put(b1, b.data.recipient,
                                         Get(b1, b.data.recipient) + b.data.amount)]
    ELSE IF IsType(b, "token_mint")
    THEN [total_supply |-> led.total_supply + b.data.amount,
          balances |-> Put(led.balances, b.data.recipient,
                           Get(led.balances, b.data.recipient) + b.data.amount)]
    ELSE led

\* the replay of the first n blocks of chain ch
RECURSIVE Replay(_, _)
Replay(ch, n) ==
    IF n = 0 THEN EmptyLedger
    ELSE IF n = 1 THEN ReplayGenesis(ch[1])
    ELSE ReplayBlock(Replay(ch, n - 1), ch[n])

\* the token holds the balances and the total supply of ledger led; a key
\* with balance 0 counts as absent
SameLedger(tok, led) ==
    /\ tok.total_supply = led.total_supply
    /\ \A a \in DOMAIN tok.balances \cup DOMAIN led.balances :
           Get(tok.balances, a) = Get(led.balances, a)

\* C11: when resolve_conflicts replaces the local chain, balances and
\* total_supply after the call are those obtained by replaying the token
\* operations recorded in the adopted chain from its genesis block.
C11_AdoptedChainIsReplayed ==
    \A chains \in CandidateLists(chain, difficulty) :
        LET res == resolve_conflicts(State, chains)
        IN res.ret = "true" =>
               SameLedger(res.bc.token, Replay(res.bc.chain, Len(res.bc.chain)))

\* C12: in every reachable state balances and total_supply are the result of
\* replaying, from the initial distribution of the genesis block, the
\* token_transfer and token_mint records of the local chain in order.
C12_LedgerIsReplayOfChain == SameLedger(token, Replay(chain, Len(chain)))

\* the amounts a caller may pass: negative, zero, within and beyond every
\* balance of the model
AnyAmounts == (0 - MaxSupply - 1)..(MaxSupply + 1)

\* the balance of every address, and the allowances and the total supply, are
\* in token t2 what they are in token t1
SameBalances(t1, t2) ==
    \A a \in Addresses \cup DOMAIN t1.balances \cup DOMAIN t2.balances :
        Get(t1.balances, a) = Get(t2.balances, a)

\* C13: a transfer of more than the sender's balance fails with the
\* insufficient-balance result, and the chain length, every balance, every
\* allowance and total_supply are after the call what they were before it.
C13_OverdraftIsRejected ==
    \A kp \in KeyPairs, recipient \in Addresses, amount \in AnyAmounts :
        Get(token.balances, kp.public_key) < amount =>
            LET res == transfer_token(State, kp, recipient, amount, 1, 1)
            IN /\ res.ret = "fail"
               /\ res.message = "insufficient balance"
               /\ Len(res.bc.chain) = Len(chain)
               /\ SameBalances(res.bc.token, token)
               /\ res.bc.token.allowed = token.allowed
               /\ res.bc.token.total_supply = token.total_supply

\* C13: an address that holds nothing has just been refused a transfer, after
\* an earlier transfer had succeeded.
C13_Witness ==
    /\ last = [op |-> "transfer_token", ret |-> "fail"]
    /\ Len(chain) = 2
    /\ \E a \in DOMAIN token.balances : token.balances[a] = 0

\* C14: a transfer of a zero or negative amount fails with an invalid-amount
\* result, changes no balance and appends no block.
C14_NonPositiveAmountIsRejected ==
    \A kp \in KeyPairs, recipient \in Addresses, amount \in AnyAmounts :
        amount <= 0 =>
            LET res == transfer_token(State, kp, recipient, amount, 1, 1)
            IN /\ res.ret = "fail"
               /\ res.message = "invalid amount"
               /\ SameBalances(res.bc.token, token)
               /\ Len(res.bc.chain) = Len(chain)

\* what a successful transfer_token leaves besides the two balances: the
\* other balances, total_supply, one more block linked to the former tip
TransferFrame(res, sender, recipient) ==
    /\ res.ret = "ok"
    /\ \A a \in (Addresses \cup DOMAIN token.balances) \ {sender, recipient} :
           Get(res.bc.token.balances, a) = Get(token.balances, a)
    /\ res.bc.token.total_supply = token.total_supply
    /\ Len(res.bc.chain) = Len(chain) + 1
    /\ LastBlock(res.bc.chain).previous_hash = LastBlock(chain).hash

\* C15 as stated: a transfer of a with 0 < a <= balance[sender] succeeds, the
\* sender's balance decreases by a, the recipient's increases by a, every
\* other balance and total_supply are unchanged, the chain grows by one block
\* and that block's previous_hash is the hash of the former tip.
C15_TransferMovesAmount ==
    \A kp \in KeyPairs, recipient \in Addresses, amount \in AnyAmounts :
        (0 < amount /\ amount <= Get(token.balances, kp.public_key)) =>
            LET res == transfer_token(State, kp, recipient, amount, 1, 1)
                sender == kp.public_key
            IN /\ TransferFrame(res, sender, recipient)
               /\ Get(res.bc.token.balances, sender)
                      = Get(token.balances, sender) - amount
               /\ Get(res.bc.token.balances, recipient)
                      = Get(token.balances, recipient) + amount

\* C15, amended: the same when the recipient is not the sender; a transfer to
\* oneself succeeds, appends its block and leaves the sender's balance as it
\* was.
C15_TransferMovesAmountBetweenTwo ==
    \A kp \in KeyPairs, recipient \in Addresses, amount \in AnyAmounts :
        (0 < amount /\ amount <= Get(token.balances, kp.public_key)) =>
            LET res == transfer_token(State, kp, recipient, amount, 1, 1)
                sender == kp.public_key
            IN /\ TransferFrame(res, sender, recipient)
               /\ IsType(LastBlock(res.bc.chain), "token_transfer")
               /\ IF sender # recipient
                  THEN /\ Get(res.bc.token.balances, sender)
                              = Get(token.balances, sender) - amount
                       /\ Get(res.bc.token.balances, recipient)
                              = Get(token.balances, recipient) + amount
                  ELSE Get(res.bc.token.balances, sender)
                           = Get(token.balances, sender)

\* C15: the creator has just paid one token to the other address, in a block
\* linked to the genesis block.
C15_Witness ==
    /\ last = [op |-> "transfer_token", ret |-> "ok"]
    /\ Len(chain) = 2
    /\ IsType(chain[2], "token_transfer")
    /\ chain[2].data.amount = 1
    /\ chain[2].data.sender = PublicKey("k1")
    /\ chain[2].data.recipient = PublicKey("k2")
    /\ chain[2].previous_hash = chain[1].hash
    /\ Get(token.balances, PublicKey("k2")) = 1
    /\ Get(token.balances, PublicKey("k1")) = TokenSupply - 1

\* C16: whenever transfer(a, b, amt) succeeds, transfer(b, a, amt) right
\* after it succeeds too and the balances of a and b are again what they
\* were before the first transfer.
C16_TransferRoundTrip ==
    \A a \in Addresses, b \in Addresses, amt \in AnyAmounts :
        LET there == TokenTransfer(token, a, b, amt)
            back == TokenTransfer(there.token, b, a, amt)
        IN there.ok =>
               /\ back.ok
               /\ Get(back.token.balances, a) = Get(token.balances, a)
               /\ Get(back.token.balances, b) = Get(token.balances, b)

\* C17: mint_tokens with a key pair whose address is not the creator address
\* recorded in the genesis block fails, and total_supply, every balance and
\* the chain are after the call what they were before it.
C17_MintByOtherIsRejected ==
    \A kp \in KeyPairs, recipient \in Addresses, amount \in AnyAmounts :
        kp.public_key # CreatorAddress(chain) =>
            LET res == mint_tokens(State, kp, recipient, amount, 1, 1)
            IN /\ res.ret = "fail"
               /\ res.bc.token.total_supply = token.total_supply
               /\ SameBalances(res.bc.token, token)
               /\ res.bc.chain = chain

\* C17: a mint by the address that created the node has just been refused,
\* because the chain adopted from a peer records another creator.
C17_Witness ==
    /\ last = [op |-> "mint_tokens", ret |-> "fail"]
    /\ CreatorAddress(chain) = PublicKey("k2")
    /\ Get(token.balances, PublicKey("k1")) = TokenSupply

\* C18: mint_tokens by the genesis creator with amount a succeeds,
\* total_supply and the recipient's balance both grow by exactly a, no other
\* balance changes, and exactly one block, recording the mint, is appended.
C18_MintByCreator ==
    \A kp \in KeyPairs, recipient \in Addresses, amount \in AnyAmounts :
        kp.public_key = CreatorAddress(chain) =>
            LET res == mint_tokens(State, kp, recipient, amount, 1, 1)
                tip == LastBlock(res.bc.chain)
            IN /\ res.ret = "ok"
               /\ res.bc.token.total_supply = token.total_supply + amount
               /\ Get(res.bc.token.balances, recipient)
                      = Get(token.balances, recipient) + amount
               /\ \A a \in (Addresses \cup DOMAIN token.balances) \ {recipient} :
                      Get(res.bc.token.balances, a) = Get(token.balances, a)
               /\ Len(res.bc.chain) = Len(chain) + 1
               /\ SubSeq(res.bc.chain, 1, Len(chain)) = chain
               /\ IsType(tip, "token_mint")
               /\ tip.data.minter = kp.public_key
               /\ tip.data.recipient = recipient
               /\ tip.data.amount = amount
               /\ tip.data.new_total_supply = token.total_supply + amount

\* C18: the creator has just minted one token for the other address, in the
\* block after the genesis block.
C18_Witness ==
    /\ last = [op |-> "mint_tokens", ret |-> "ok"]
    /\ Len(chain) = 2
    /\ IsType(chain[2], "token_mint")
    /\ chain[2].data.amount = 1
    /\ token.total_supply = TokenSupply + 1
    /\ Get(token.balances, PublicKey("k2")) = 1

\* every allowance but that of (owner, spender) is in token t2 what it is in
\* token t1
SameOtherAllowances(t1, t2, owner, spender) ==
    \A o \in Addresses \cup DOMAIN t1.allowed \cup DOMAIN t2.allowed :
        \A sp \in Addresses :
            <<o, sp>> # <<owner, spender>> =>
                GetAllowed(t1.allowed, o, sp) = GetAllowed(t2.allowed, o, sp)

\* the amounts passed to the allowance operations: negative, zero, and up to
\* one more than any allowance of the model
AllowanceAmounts == (0 - 1)..(MaxAmount + 1)

\* C19: approve(owner, spender, amount) sets the allowance of (owner,
\* spender) to amount whatever its previous value, so that approving twice
\* is approving once and a later approve overwrites an earlier one, and it
\* changes no balance, no other allowance, not total_supply and not the
\* chain (a Token holds no reference to the chain: the node after the call is
\* the node before it with the token approve returns).
C19_ApproveSetsAllowance ==
    \A owner \in Addresses, spender \in Addresses,
       amount \in AllowanceAmounts, later \in AllowanceAmounts :
        LET once == TokenApprove(token, owner, spender, amount)
            twice == TokenApprove(once.token, owner, spender, amount)
            over == TokenApprove(once.token, owner, spender, later)
            node == [State EXCEPT !.token = once.token]
        IN /\ once.ok /\ twice.ok /\ over.ok
           /\ GetAllowed(once.token.allowed, owner, spender) = amount
           /\ twice.token = once.token
           /\ GetAllowed(over.token.allowed, owner, spender) = later
           /\ once.token.balances = token.balances
           /\ once.token.total_supply = token.total_supply
           /\ SameOtherAllowances(once.token, token, owner, spender)
           /\ node.chain = chain /\ node.pending = pending

\* C19: an approve has just set the allowance of the creator for the other
\* address to zero, before any block was appended
C19_Witness ==
    /\ last = [op |-> "approve", ret |-> "true"]
    /\ PublicKey("k1") \in DOMAIN token.allowed
    /\ GetAllowed(token.allowed, PublicKey("k1"), PublicKey("k2")) = 0
    /\ Len(chain) = 1

\* transfer_from refused: the flag is False, balances and allowances keep
\* their values
TransferFromRefused(res) ==
    /\ ~res.ok
    /\ SameBalances(res.token, token)
    /\ \A o \in Addresses, sp \in Addresses :
           GetAllowed(res.token.allowed, o, sp) = GetAllowed(token.allowed, o, sp)
    /\ res.token.total_supply = token.total_supply

\* what a successful transfer_from leaves besides the two balances: the
\* allowance of (owner, spender) less the amount, the other balances, the
\* other allowances, total_supply
TransferFromFrame(res, spender, owner, recipient, amount) ==
    /\ res.ok
    /\ GetAllowed(res.token.allowed, owner, spender)
           = GetAllowed(token.allowed, owner, spender) - amount
    /\ \A a \in (Addresses \cup DOMAIN token.balances) \ {owner, recipient} :
           Get(res.token.balances, a) = Get(token.balances, a)
    /\ SameOtherAllowances(res.token, token, owner, spender)
    /\ res.token.total_supply = token.total_supply

\* C20 as stated: transfer_from fails, leaving balances and allowances as
\* they were, when the owner's balance or the allowance of (owner, spender)
\* is below the amount; otherwise it succeeds, the owner's balance decreases
\* by the amount, the recipient's increases by it, the allowance decreases
\* by it and nothing else changes.
C20_TransferFromMovesAmount ==
    \A spender \in Addresses, owner \in Addresses, recipient \in Addresses,
       amount \in AnyAmounts :
        LET res == TokenTransferFrom(token, spender, owner, recipient, amount)
        IN IF \/ Get(token.balances, owner) < amount
              \/ GetAllowed(token.allowed, owner, spender) < amount
           THEN TransferFromRefused(res)
           ELSE /\ TransferFromFrame(res, spender, owner, recipient, amount)
                /\ Get(res.token.balances, owner) = Get(token.balances, owner) - amount
                /\ Get(res.token.balances, recipient)
                       = Get(token.balances, recipient) + amount

\* C20, amended: the same when the recipient is not the owner; a
\* transfer_from to the owner succeeds, decreases the allowance and leaves the
\* owner's balance as it was.
C20_TransferFromMovesAmountBetweenTwo ==
    \A spender \in Addresses, owner \in Addresses, recipient \in Addresses,
       amount \in AnyAmounts :
        LET res == TokenTransferFrom(token, spender, owner, recipient, amount)
        IN IF \/ Get(token.balances, owner) < amount
              \/ GetAllowed(token.allowed, owner, spender) < amount
           THEN TransferFromRefused(res)
           ELSE /\ TransferFromFrame(res, spender, owner, recipient, amount)
                /\ IF owner # recipient
                   THEN /\ Get(res.token.balances, owner)
                               = Get(token.balances, owner) - amount
                        /\ Get(res.token.balances, recipient)
                               = Get(token.balances, recipient) + amount
                   ELSE Get(res.token.balances, owner) = Get(token.balances, owner)

\* C20: the other address has just spent the allowance of one the creator
\* gave it, paying itself from the creator's balance.
C20_Witness ==
    /\ last = [op |-> "transfer_from", ret |-> "true"]
    /\ Len(chain) = 1
    /\ PublicKey("k1") \in DOMAIN token.allowed
    /\ GetAllowed(token.allowed, PublicKey("k1"), PublicKey("k2")) = 0
    /\ Get(token.balances, PublicKey("k1")) = TokenSupply - 1
    /\ Get(token.balances, PublicKey("k2")) = 1

(* --------------------- the steps of an appending call ------------------ *)

\* a call that appends a block has mutated the ledger (transfer_token, mint_tokens)
\* and constructed new_block from the chain as it is; the nonce search and
\* the append are still to come. res is what the whole call would return.
Constructs(op, res, data, kp, t, r) ==
    /\ token' = res.bc.token
    /\ mining' = [op |-> op, block |-> ConstructBlock(chain, data, TRUE, kp, t, r)]
    /\ last' = [op |-> op, ret |-> "mining"]
    /\ UNCHANGED <<chain, difficulty, pending, racing>>

\* transfer_token up to the construction of the block: lines 476-510 and
\* add_block up to line 456
TransferBegins(recs, amts) ==
    \E kp \in KeyPairs, recipient \in recs, amount \in amts,
       t \in Times, r \in RandBits :
        LET res == transfer_token(State, kp, recipient, amount, t, r)
        IN /\ mining = <<>>
           /\ InRange(res.bc)
           /\ IF res.ret = "ok"
              THEN Constructs("transfer_token", res,
                              TransferRecord(res.bc.token, kp, recipient, amount, t),
                              kp, t, r)
              ELSE Becomes("transfer_token", res)

\* mint_tokens up to the construction of the block: lines 542-576 and
\* add_block up to line 456
MintBegins(recs, amts) ==
    \E kp \in KeyPairs, recipient \in recs, amount \in amts,
       t \in Times, r \in RandBits :
        LET res == mint_tokens(State, kp, recipient, amount, t, r)
        IN /\ mining = <<>>
           /\ InRange(res.bc)
           /\ IF res.ret = "ok"
              THEN Constructs("mint_tokens", res,
                              MintRecord(res.bc.token, kp, recipient, amount, t),
                              kp, t, r)
              ELSE Becomes("mint_tokens", res)

\* add_block up to the construction of the block
AddBlockBegins ==
    \E t \in Times, r \in RandBits :
        /\ mining = <<>>
        /\ chain # <<>>
        /\ Len(chain) < MaxChain
        /\ mining' = [op |-> "add_block",
                      block |-> ConstructBlock(chain, PlainData, FALSE,
                                               KeyPair("k1"), t, r)]
        /\ last' = [op |-> "add_block", ret |-> "mining"]
        /\ UNCHANGED <<chain, difficulty, pending, token, racing>>

\* add_block from line 459: mine_block and self.chain.append(new_block), to
\* the chain as it is when the search ends
Appends ==
    /\ mining # <<>>
    /\ Len(chain) < MaxChain
    /\ chain' = Append(chain, MineBlock(mining.block, difficulty))
    /\ mining' = <<>>
    /\ last' = [op |-> mining.op, ret |-> "ok"]
    /\ UNCHANGED <<difficulty, pending, token, racing>>

\* an exception leaves the call between the ledger mutation and the append:
\* json.dumps of a value it cannot serialise (lines 505, 443, 320), or
\* KeyboardInterrupt during the nonce search
Interrupted ==
    /\ mining # <<>>
    /\ mining' = <<>>
    /\ last' = [op |-> mining.op, ret |-> "raise"]
    /\ UNCHANGED <<chain, difficulty, pending, token, racing>>

\* one thread calling the appending operations, step by step
NextSteps ==
    \/ TransferBegins(Addresses, Amounts) \/ MintBegins(Addresses, Amounts)
    \/ AddBlockBegins \/ Appends

SpecSteps == InitLedger /\ [][NextSteps]_vars

\* the same with calls that raise before the append
NextInterrupt ==
    \/ TransferBegins(ChainRecipients, ChainAmounts)
    \/ MintBegins(ChainRecipients, ChainAmounts)
    \/ AddBlockBegins \/ Appends \/ Interrupted

SpecInterrupt == InitLedger /\ [][NextInterrupt]_vars

\* a thread calling add_block or transfer_token and a thread calling
\* resolve_conflicts on the same Blockchain object, which has no lock
NextRace ==
    \/ AddBlockBegins \/ TransferBegins(ChainRecipients, ChainAmounts)
    \/ Appends \/ ResolveConflicts

SpecRace == Init /\ [][NextRace]_vars

\* C21: ledger mutations and blocks move in lock-step: a call of
\* transfer_token or mint_tokens that succeeds makes the chain one block
\* longer and a call that fails leaves it as it is, a block is constructed
\* only when the ledger mutation of its operation has been applied, and
\* between calls the ledger is the replay of the chain.
C21_LedgerAndChainInLockStep ==
    /\ mining = <<>> =>
           /\ SameLedger(token, Replay(chain, Len(chain)))
           /\ \A kp \in KeyPairs, recipient \in Addresses, amount \in Amounts :
                  LET tr == transfer_token(State, kp, recipient, amount, 1, 1)
                      mi == mint_tokens(State, kp, recipient, amount, 1, 1)
                  IN /\ tr.ret \in {"ok", "fail"} /\ mi.ret \in {"ok", "fail"}
                     /\ Len(tr.bc.chain) = Len(chain) + (IF tr.ret = "ok" THEN 1 ELSE 0)
                     /\ Len(mi.bc.chain) = Len(chain) + (IF mi.ret = "ok" THEN 1 ELSE 0)
                     /\ tr.ret = "fail" => SameLedger(tr.bc.token, token)
                     /\ mi.ret = "fail" => mi.bc.token = token
    /\ (mining # <<>> /\ mining.op # "add_block") =>
           SameLedger(token, ReplayBlock(Replay(chain, Len(chain)), mining.block))

\* C21: a transfer and then a mint have succeeded, each with its block
C21_Witness ==
    /\ mining = <<>>
    /\ last = [op |-> "mint_tokens", ret |-> "ok"]
    /\ Len(chain) = 3
    /\ IsType(chain[2], "token_transfer")
    /\ IsType(chain[3], "token_mint")

\* C22: the ledger mutation of a transfer or mint and the append of its block
\* are atomic: in no state, the nonce search and a call that raises
\* included, has the ledger change been applied while the block that records
\* it is absent from the chain.
C22_LedgerChangeHasItsBlock == SameLedger(token, Replay(chain, Len(chain)))

\* C30: a block mined against a tip that resolve_conflicts has replaced
\* meanwhile is never appended: the block an appending call has just appended
\* links to the block before it in the chain.
C30_AppendedBlockLinksToTip ==
    (last.ret = "ok" /\ last.op \in {"add_block", "transfer_token"}) =>
        /\ Len(chain) >= 2
        /\ LastBlock(chain).previous_hash = chain[Len(chain) - 1].hash

\* a peer's chain, as block dictionaries: chain ch and one more block, mined
\* and linked to the tip, whose index is one more than its position
Renumbered(ch, d) ==
    ChainData(Append(ch, MineBlock(NewBlock(Len(ch) + 1, 1, PlainData,
                                            LastBlock(ch).hash, <<>>, 0, 1), d)))

\* the block at position i (from 0) of chain ch has index i
IndexedByPosition(ch) == \A i \in 1..Len(ch) : ch[i].index = i - 1

\* C23: the block at position i of the local chain has index i, every
\* appended block having the index of the previous tip plus one, after any
\* sequence of add_block, mine_pending_transactions, transfer_token,
\* mint_tokens and resolve_conflicts.
C23_IndexIsPosition ==
    /\ IndexedByPosition(chain)
    /\ \A chains \in CandidateLists(chain, difficulty)
                       \cup {<<Renumbered(chain, difficulty)>>} :
           IndexedByPosition(resolve_conflicts(State, chains).bc.chain)

\* the characters of hash h that the model computes do not contradict n
\* leading '0' characters
ZerosWithin(h, n) == \A k \in 1..n : k <= HashDigits => h.digits[k] = 0

\* C24: every block of the chain has a hash with at least as many leading
\* '0' characters as the block's own difficulty field says, whatever the
\* difficulty the Blockchain was constructed with.
C24_HashMeetsBlockDifficulty ==
    \A i \in 1..Len(chain) : ZerosWithin(chain[i].hash, chain[i].difficulty)

(* ------------------------- files of any content ------------------------ *)

\* the contents load_from_file may find, besides those of Files: a snapshot
\* whose "chain" is the empty list, and JSON of the wrong shape (a top level
\* that is not an object, a "chain" that is not a list of objects, an
\* "allowed" that is not an object of objects)
StoredFiles(bc) ==
    Files(bc) \cup {[Snapshot(bc) EXCEPT !.chain = <<>>], [kind |-> "misshapen"]}

\* load_from_file, lines 802-840: FileNotFoundError, json.JSONDecodeError and
\* KeyError are caught; the TypeError or AttributeError that a value of the
\* wrong shape raises is not
LoadRaises(file) == file.kind = "misshapen"

\* the load command, line 995: self.blockchain is assigned only when
\* load_from_file returns
LoadStoredFile ==
    \E file \in StoredFiles(State), k \in CreatorKeys, t \in Times, r \in RandBits :
        IF LoadRaises(file)
        THEN Becomes("load_from_file", [ret |-> "raise", bc |-> State])
        ELSE Becomes("load_from_file",
                     [ret |-> file.kind,
                      bc |-> load_from_file(file, difficulty, k, t, r)])

\* a node that appends blocks and loads files
NextStore ==
    \/ AddBlock \/ TransferToken(ChainRecipients, ChainAmounts)
    \/ MintTokens(ChainRecipients, ChainAmounts) \/ LoadStoredFile

SpecStore == Init /\ [][NextStore]_vars

\* C25: the local chain is never empty: in every reachable state, also after
\* load_from_file of any snapshot, it holds at least the genesis block and
\* last_block is defined.
C25_ChainNeverEmpty == Len(chain) >= 1

\* C27: load_from_file never fails: for an absent file and for a corrupt one
\* (not parseable, keys missing, values of the wrong shape) it returns a
\* fresh chain of one genesis block with a fresh ledger.
C27_LoadNeverFails ==
    \A file \in StoredFiles(State), k \in CreatorKeys :
        file.kind \in {"absent", "corrupt", "misshapen"} =>
            /\ ~LoadRaises(file)
            /\ LET bc == load_from_file(file, difficulty, k, 1, 1)
               IN /\ Len(bc.chain) = 1
                  /\ bc.chain[1].index = 0
                  /\ bc.pending = <<>>
                  /\ bc.token.balances = (PublicKey(k) :> bc.token.total_supply)
                  /\ bc.token.allowed = <<>>

\* a Blockchain object just constructed with total supply S by a creator of
\* address creator: one block, of index 0 and with the all-zero
\* previous_hash, that records the creator, who holds S, nobody else holding
\* anything
JustConstructed(bc, S, creator) ==
    /\ Len(bc.chain) = 1
    /\ bc.chain[1].index = 0
    /\ bc.chain[1].previous_hash = ZeroHash
    /\ CreatorAddress(bc.chain) = creator
    /\ bc.token.total_supply = S
    /\ Get(bc.token.balances, creator) = S
    /\ \A a \in (Addresses \cup DOMAIN bc.token.balances) \ {creator} :
           Get(bc.token.balances, a) = 0

\* C26: right after a Blockchain is constructed with total supply S the chain
\* has exactly one block, of index 0 and with the all-zero sentinel as
\* previous_hash, the creator address recorded in it holds S and no other
\* address holds a non-zero balance.
C26_FreshBlockchain ==
    /\ \A d \in Difficulties, k \in PrivateKeys, S \in 0..MaxSupply :
           JustConstructed(NewBlockchain(d, "MyToken", "MTK", S, k, 1, 1),
                           S, PublicKey(k))
    /\ last.op = "init" => JustConstructed(State, TokenSupply, PublicKey("k1"))

\* C26: the node has just been constructed, at the highest difficulty
C26_Witness ==
    /\ last = [op |-> "init", ret |-> "ok"]
    /\ difficulty = MaxDifficulty
    /\ Len(chain) = 1
    /\ token.balances = (PublicKey("k1") :> TokenSupply)

\* the record of a token operation as transfer_token or mint_tokens passed it
\* to add_block, rebuilt from the data of block b for key pair kp: the fields
\* but public_key and signature, with the signature kp gave them
RecordPassed(b, kp) ==
    LET fields == DOMAIN b.data \ {"public_key", "signature"}
        record == [f \in fields |-> b.data[f]]
    IN ("signature" :> Sign(kp, record)) @@ record

\* the signature recorded in block b is the one the key pair of the recorded
\* public key gives to the record (KeyPair.verify signs again and compares)
RecordVerifies(b) ==
    /\ {"public_key", "signature"} \subseteq DOMAIN b.data
    /\ \E kp \in KeyPairs :
           /\ kp.public_key = b.data.public_key
           /\ Verify(kp, RecordPassed(b, kp), b.data.signature)

\* every block of chain ch that records a transfer or a mint verifies
TokenRecordsVerify(ch) ==
    \A i \in 1..Len(ch) :
        (IsType(ch[i], "token_transfer") \/ IsType(ch[i], "token_mint")) =>
            RecordVerifies(ch[i])

\* a peer's chain, as block dictionaries: chain ch and one more block, mined
\* and linked, recording a transfer from the creator that the other key
\* signed
Forged(ch, d) ==
    LET thief == KeyPair("k2")
        transaction == [type |-> "token_transfer", sender |-> PublicKey("k1"),
                        recipient |-> thief.public_key, amount |-> 1,
                        token |-> "MTK", timestamp |-> 1]
        data == ("public_key" :> PublicKey("k1"))
                    @@ ("signature" :> Sign(thief, transaction)) @@ transaction
    IN ChainData(AddBlockTo(ch, d, data, FALSE, thief, 1, 1))

\* C28: every block of the local chain that records a transfer or a mint
\* carries a signature that verifies against the public key recorded in it,
\* after any sequence of transfer_token, mint_tokens and resolve_conflicts.
C28_TokenRecordsAreSigned ==
    /\ TokenRecordsVerify(chain)
    /\ \A chains \in CandidateLists(chain, difficulty)
                       \cup {<<Forged(chain, difficulty)>>} :
           TokenRecordsVerify(resolve_conflicts(State, chains).bc.chain)

(* ------------------------- signatures of strings ----------------------- *)

\* longest string signed, and longest private key, in characters
MaxText == 2

\* the characters of the strings
Chars == {"a", "b"}

\* the messages: the strings of at most MaxText characters
Texts == UNION {[1..n -> Chars] : n \in 0..MaxText}

\* the private keys KeyPair(private_key) accepts: the non-empty strings
KeyTexts == Texts \ {<<>>}

\* KeyPair.sign: sha256 of the message followed by the private key; the
\* digest is written as its preimage (sha256 taken as injective)
SignText(private_key, data) == <<"sha256", data \o private_key>>

\* KeyPair.verify: signs again and compares
VerifyText(private_key, data, signature) == SignText(private_key, data) = signature

\* a key pair signs a message and a key pair, the same or another, verifies
\* the signature against a message, the same or another
SignAndVerify ==
    \E signer \in KeyTexts, signed \in Texts, key \in KeyTexts, message \in Texts :
        /\ last' = [op |-> "verify",
                    ret |-> IF VerifyText(key, message, SignText(signer, signed))
                            THEN "true" ELSE "false",
                    signer |-> signer, signed |-> signed,
                    key |-> key, message |-> message]
        /\ UNCHANGED <<chain, difficulty, pending, token, mining, racing>>

NextSign == SignAndVerify

SpecSign == Init /\ [][NextSign]_vars

\* C29: for every message m and key pair k, k.verify(m, k.sign(m)) is true,
\* and for a signature made over m by a key pair with another private key,
\* or over another message, verify returns false (sha256 taken as
\* injective).
C29_OnlyOwnSignatureVerifies ==
    last.op = "verify" =>
        (last.ret = "true" <=> (last.key = last.signer /\ last.message = last.signed))

(* ---------------------- two threads, one Blockchain -------------------- *)

\* a second thread's add_block up to the construction of the block
OtherAddBlockBegins ==
    \E t \in Times, r \in RandBits :
        /\ racing = <<>>
        /\ chain # <<>>
        /\ Len(chain) < MaxChain
        /\ racing' = [op |-> "add_block",
                      block |-> ConstructBlock(chain, PlainData, FALSE,
                                               KeyPair("k1"), t, r)]
        /\ last' = [op |-> "add_block", ret |-> "mining"]
        /\ UNCHANGED <<chain, difficulty, pending, token, mining>>

\* a second thread's transfer_token up to the construction of the block
OtherTransferBegins(recs, amts) ==
    \E kp \in KeyPairs, recipient \in recs, amount \in amts,
       t \in Times, r \in RandBits :
        LET res == transfer_token(State, kp, recipient, amount, t, r)
        IN /\ racing = <<>>
           /\ InRange(res.bc)
           /\ token' = res.bc.token
           /\ UNCHANGED <<chain, difficulty, pending, mining>>
           /\ IF res.ret = "ok"
              THEN /\ racing' = [op |-> "transfer_token",
                                 block |-> ConstructBlock(
                                     chain,
                                     TransferRecord(res.bc.token, kp, recipient,
                                                    amount, t),
                                     TRUE, kp, t, r)]
                   /\ last' = [op |-> "transfer_token", ret |-> "mining"]
              ELSE /\ racing' = racing
                   /\ last' = [op |-> "transfer_token", ret |-> res.ret]

\* the second thread's add_block from line 459: the nonce search and the
\* append to the chain as it is when the search ends
OtherAppends ==
    /\ racing # <<>>
    /\ Len(chain) < MaxChain
    /\ chain' = Append(chain, MineBlock(racing.block, difficulty))
    /\ racing' = <<>>
    /\ last' = [op |-> racing.op, ret |-> "ok"]
    /\ UNCHANGED <<difficulty, pending, token, mining>>

\* two threads calling add_block and transfer_token on the same Blockchain
\* object, which has no lock
NextPair ==
    \/ AddBlockBegins \/ TransferBegins(ChainRecipients, ChainAmounts) \/ Appends
    \/ OtherAddBlockBegins \/ OtherTransferBegins(ChainRecipients, ChainAmounts)
    \/ OtherAppends

SpecPair == Init /\ [][NextPair]_vars

\* C31: mutating calls exclude each other: when two concurrent calls have
\* both returned, the state is one a serial order of them gives: every block
\* links to the block before it (no two blocks were appended on the same
\* tip), the balances add up to total_supply and none is negative.
C31_ConcurrentCallsSerialise ==
    (mining = <<>> /\ racing = <<>>) =>
        /\ \A i \in 2..Len(chain) : chain[i].previous_hash = chain[i - 1].hash
        /\ SumBalances(token) = token.total_supply
        /\ \A a \in DOMAIN token.balances : token.balances[a] >= 0

(* ------------------------- appended blocks stay ------------------------ *)

\* add_block(data, key_pair) called with the dict object that block i of the
\* chain holds as its data: lines 443-447 sign the object's present content
\* and write public_key and signature into the object itself, which is block
\* i's payload as well as the new block's
add_block_same(bc, i, kp, t, r) ==
    LET data == bc.chain[i].data
        stored == SignedData(data, kp)
        ch == [bc.chain EXCEPT ![i] = [@ EXCEPT !.data = stored]]
        new_block == NewBlock(Len(ch), t, stored, LastBlock(ch).hash,
                              Sign(kp, data), 0, r)
    IN [ret |-> "ok",
        bc |-> [bc EXCEPT !.chain = Append(ch, MineBlock(new_block, bc.difficulty))]]

\* chain c1 is the beginning of chain c2, block by block and field by field
Prefix(c1, c2) == Len(c1) <= Len(c2) /\ \A i \in 1..Len(c1) : c2[i] = c1[i]

\* C32: a block, once appended, is never changed: after every step of
\* add_block, transfer_token, mint_tokens and mine_pending_transactions the
\* chain begins with the chain before the step, every field of every earlier
\* block as it was (also when add_block is given the dict that a block
\* passed by a caller holds); resolve_conflicts alone replaces blocks, and
\* only by replacing the whole chain by a candidate.
C32_AppendedBlocksNeverChange ==
    /\ \A signed \in BOOLEAN, kp \in KeyPairs :
           Prefix(chain, add_block(State, PlainData, signed, kp, 1, 1).bc.chain)
    /\ \A kp \in KeyPairs, recipient \in Addresses, amount \in Amounts :
           /\ Prefix(chain, transfer_token(State, kp, recipient, amount, 1, 1).bc.chain)
           /\ Prefix(chain, mint_tokens(State, kp, recipient, amount, 1, 1).bc.chain)
    /\ \A miner_address \in Addresses :
           Prefix(chain, mine_pending_transactions(State, miner_address, 1, 1).bc.chain)
    /\ \A chains \in CandidateLists(chain, difficulty) :
           LET res == resolve_conflicts(State, chains)
           IN IF res.ret = "true"
              THEN \E k \in 1..Len(chains) : res.bc.chain = ChainFromData(chains[k])
              ELSE res.bc.chain = chain
    /\ \A i \in {j \in 2..Len(chain) : "message" \in DOMAIN chain[j].data},
          kp \in KeyPairs :
           Prefix(chain, add_block_same(State, i, kp, 1, 1).bc.chain)

(* ----------------------- the nonce search, step by step ---------------- *)

\* the difficulties mine_block is called with
MineDifficulties == 0..HashDigits

\* the blocks mine_block is called on: a block just constructed on the tip,
\* with the default nonce of Block(...) or another, and the same block
\* already mined at a difficulty of a chain
MineEntries(ch) ==
    LET fresh == {NewBlock(Len(ch), 1, PlainData, LastBlock(ch).hash, <<>>, n, 1) :
                     n \in {0, 3}}
    IN fresh \cup {MineBlock(b, d) : b \in fresh, d \in Difficulties}

\* one pass of the loop of mine_block that adds two to the nonce
MineAttemptSkipping(b) ==
    LET b1 == [b EXCEPT !.nonce = b.nonce + 2]
    IN [b1 EXCEPT !.hash = CalculateHash(b1)]

\* one pass of the loop of mine_block that also stamps the block anew
MineAttemptRestamping(b) ==
    LET b1 == [b EXCEPT !.nonce = b.nonce + 1, !.timestamp = b.timestamp + 1]
    IN [b1 EXCEPT !.hash = CalculateHash(b1)]

\* one pass of the loop of mine_block: self.nonce += 1, then
\* self.hash = self._calculate_hash()
MineAttempt(b) ==
    LET b1 == [b EXCEPT !.nonce = b.nonce + 1]
    IN [b1 EXCEPT !.hash = CalculateHash(b1)]

\* mine_block(d) is called on block b: entry is the block as passed, before
\* the Blockchain as it was then
MineEnters ==
    \E b \in MineEntries(chain), d \in MineDifficulties :
        /\ mining = <<>>
        /\ mining' = [op |-> "mine_block", block |-> b, difficulty |-> d,
                      entry |-> b, attempts |-> 0, before |-> State]
        /\ last' = [op |-> "mine_block", ret |-> "mining"]
        /\ UNCHANGED <<chain, difficulty, pending, token, racing>>

\* the loop test fails: one more pass
MineTries ==
    /\ mining # <<>>
    /\ mining.op = "mine_block"
    /\ ~MeetsTarget(mining.block.hash, mining.difficulty)
    /\ mining' = [mining EXCEPT !.block = MineAttempt(mining.block),
                                !.attempts = mining.attempts + 1]
    /\ UNCHANGED <<chain, difficulty, pending, token, last, racing>>

\* the loop test holds: mine_block returns
MineReturns ==
    /\ mining # <<>>
    /\ mining.op = "mine_block"
    /\ MeetsTarget(mining.block.hash, mining.difficulty)
    /\ last' = [mining EXCEPT !.op = "mine_block"] @@ [ret |-> "ok"]
    /\ mining' = <<>>
    /\ UNCHANGED <<chain, difficulty, pending, token, racing>>

NextMine == MineEnters \/ MineTries \/ MineReturns

SpecMine == Init /\ [][NextMine]_vars

\* the thread that runs mine_block keeps running
SpecMineFair ==
    Init /\ [][NextMine]_vars /\ WF_vars(MineTries) /\ WF_vars(MineReturns)

\* the hash the loop test of mine_block saw when the nonce was n: the stored
\* hash at entry, the recomputed hash after
HashSeenAt(m, n) ==
    IF n = m.entry.nonce THEN m.entry.hash
    ELSE CalculateHash([m.entry EXCEPT !.nonce = n])

\* the search m (in progress or returned) went up from the entry nonce by one
\* per pass, recomputing the hash, and passed no nonce whose hash meets the
\* target
SearchedInOrder(m) ==
    /\ m.block.nonce = m.entry.nonce + m.attempts
    /\ m.block.hash = HashSeenAt(m, m.block.nonce)
    /\ \A n \in m.entry.nonce..(m.block.nonce - 1) :
           ~MeetsTarget(HashSeenAt(m, n), m.difficulty)

\* C33: mine_block(d) adds one to the nonce per attempt and recomputes the
\* hash: in every state the search has gone up by one nonce per pass and
\* passed no nonce whose hash meets the target, it returns at the first such
\* nonce from the entry nonce on, and it leaves nonce and hash as they are
\* when the hash meets the target on entry; and it terminates (some nonce
\* from the starting nonce on gives a hash with d leading '0' characters).
C33_MineBlockSearchesAndEnds ==
    /\ [](
          /\ (mining # <<>> /\ mining.op = "mine_block") => SearchedInOrder(mining)
          /\ (last.op = "mine_block" /\ last.ret = "ok") =>
                 /\ SearchedInOrder(last)
                 /\ MeetsTarget(last.block.hash, last.difficulty)
                 /\ last.difficulty \in Difficulties =>
                        last.block = MineBlock(last.entry, last.difficulty)
                 /\ MeetsTarget(last.entry.hash, last.difficulty) =>
                        /\ last.attempts = 0
                        /\ last.block.nonce = last.entry.nonce
                        /\ last.block.hash = last.entry.hash
         )
    /\ (mining # <<>>) ~> (mining = <<>>)

\* C33: a search at the highest difficulty returned after passing more than
\* HexBase nonces
C33_Witness ==
    /\ last.op = "mine_block"
    /\ last.ret = "ok"
    /\ last.difficulty = HashDigits
    /\ last.attempts > HexBase

\* the fields of a block that are not its nonce or its hash
KeptFields == {"index", "timestamp", "data", "previous_hash", "signature",
               "difficulty"}

\* the search m has changed no field of the block but nonce and hash, and the
\* Blockchain (chain, ledger, pending list) is as it was at entry
OnlyNonceAndHash(m) ==
    /\ \A f \in KeptFields : m.block[f] = m.entry[f]
    /\ State = m.before

\* C34: mining changes only the nonce and the hash of the candidate block:
\* during and after mine_block the block's index, timestamp, payload,
\* previous_hash and signature, the chain, the ledger and the list of pending
\* transactions are what they were at entry.
C34_MiningChangesNonceAndHash ==
    /\ (mining # <<>> /\ mining.op = "mine_block") => OnlyNonceAndHash(mining)
    /\ (last.op = "mine_block" /\ last.ret = "ok") => OnlyNonceAndHash(last)
    /\ \A b \in MineEntries(chain), d \in Difficulties :
           \A f \in KeptFields : MineBlock(b, d)[f] = b[f]

\* C34: a search is under way and has changed the nonce more than once
C34_Witness ==
    /\ mining # <<>>
    /\ mining.op = "mine_block"
    /\ mining.attempts >= 2
    /\ mining.block.nonce # mining.entry.nonce
    /\ mining.block.hash # mining.entry.hash

(* ------------------------- pending transactions ------------------------ *)

\* the Blockchain bc after the call op a node makes between an
\* add_transaction and the mine_pending_transactions that follows: an
\* add_block, a transfer_token of the creator, or none
AfterCall(bc, op) ==
    IF op = "add_block"
    THEN add_block(bc, PlainData, FALSE, KeyPair("k1"), 1, 1).bc
    ELSE IF op = "transfer_token"
    THEN transfer_token(bc, KeyPair("k1"), PublicKey("k2"), 1, 1, 1).bc
    ELSE bc

\* add_transaction, the call op, then mine_pending_transactions: the index
\* add_transaction returned is the index of the block that holds the
\* transaction
IncludedWhereReturned(op) ==
    LET kp == KeyPair("k1")
        added == add_transaction(State, kp.public_key, PublicKey("k2"), 1, kp, 1)
        transaction == LastBlock(added.bc.pending)
        mined == mine_pending_transactions(AfterCall(added.bc, op),
                                           PublicKey("k2"), 1, 1)
        block == LastBlock(mined.bc.chain)
    IN /\ added.ret = "ok" /\ mined.ret = "ok"
       /\ \E j \in 1..Len(block.data.transactions) :
              block.data.transactions[j] = transaction
       /\ block.index = added.val

\* C35: the index add_transaction returns is the index of the block in which
\* the transaction is later included, whatever is called between the
\* add_transaction and the mine_pending_transactions that includes it.
C35_ReturnedIndexIsIncludingBlock ==
    \A op \in {"none", "add_block", "transfer_token"} : IncludedWhereReturned(op)

\* the Blockchain after two more calls of add_transaction, to r1 and to r2
\* with amounts a1 and a2
TwoAdded(r1, a1, r2, a2) ==
    LET kp == KeyPair("k1")
        first == add_transaction(State, kp.public_key, r1, a1, kp, 1).bc
    IN add_transaction(first, kp.public_key, r2, a2, kp, 1).bc

\* mine_pending_transactions on Blockchain bc: one block more, holding the
\* pending transactions of bc in their order and then the reward of the
\* miner, and an empty pending list
DrainsInto(bc, miner_address) ==
    LET res == mine_pending_transactions(bc, miner_address, 1, 1)
        block == LastBlock(res.bc.chain)
    IN /\ res.ret = "ok"
       /\ Len(res.bc.chain) = Len(bc.chain) + 1
       /\ block.data.transactions
              = bc.pending \o <<RewardTransaction(miner_address, 1)>>
       /\ res.bc.pending = <<>>
       /\ LET again == mine_pending_transactions(res.bc, miner_address, 1, 1)
          IN LastBlock(again.bc.chain).data.transactions
                 = <<RewardTransaction(miner_address, 1)>>

\* C36: mine_pending_transactions drains the pending list into one block: the
\* block appended holds exactly the transactions pending before the call, in
\* the order they were added, then exactly one reward transaction for the
\* miner; the pending list is empty afterwards, so that the next block mined
\* holds none of them again.
C36_PendingDrainedIntoOneBlock ==
    chain # <<>> =>
        \A miner_address \in Addresses :
            /\ DrainsInto(State, miner_address)
            /\ \A r1 \in Addresses, r2 \in Addresses, a1 \in 1..2, a2 \in 1..2 :
                   LET bc == TwoAdded(r1, a1, r2, a2)
                   IN /\ Len(bc.pending) = Len(pending) + 2
                      /\ DrainsInto(bc, miner_address)

\* C36: mine_pending_transactions has just appended a block that holds a
\* pending transaction and the reward
C36_Witness ==
    /\ last = [op |-> "mine_pending_transactions", ret |-> "ok"]
    /\ pending = <<>>
    /\ Len(chain) >= 2
    /\ "transactions" \in DOMAIN LastBlock(chain).data
    /\ Len(LastBlock(chain).data.transactions) = 2
    /\ LastBlock(chain).data.transactions[1].recipient = PublicKey("k2")
    /\ LastBlock(chain).data.transactions[2].type = "reward"

(* ---------------------------- mint authority --------------------------- *)

\* C37: the mint authority is fixed at the creation of the chain: after any
\* sequence of add_block, transfer_token, mint_tokens,
\* mine_pending_transactions and resolve_conflicts the genesis block of the
\* local chain and the creator address read from it are those of the
\* construction, and no key pair but the original creator's mints.
C37_MintAuthorityIsFixed ==
    /\ chain[1] = NewBlockchain(difficulty, "MyToken", "MTK", TokenSupply, "k1",
                               1, 1).chain[1]
    /\ CreatorAddress(chain) = PublicKey("k1")
    /\ \A kp \in KeyPairs, recipient \in Addresses :
           kp.public_key # PublicKey("k1") =>
               mint_tokens(State, kp, recipient, 1, 1, 1).ret = "fail"

(* ------------------------ allowances, with history --------------------- *)

\* the amount of the last approve for the pair of Approvals and what
\* transfer_from has taken from the owner's balance since, as recorded with
\* the last call; before any approve the allowance is 0
ApprovedSoFar == IF last.op \in {"approve", "transfer_from"} THEN last.approved ELSE 0
MovedSoFar == IF last.op \in {"approve", "transfer_from"} THEN last.moved ELSE 0

\* Token.approve called on the node's token, with any amount of Amounts
ApproveCall ==
    \E pair \in Approvals, amount \in Amounts :
        LET res == TokenApprove(token, pair[1], pair[2], amount)
            bc == [State EXCEPT !.token = res.token]
        IN /\ InRange(bc)
           /\ token' = res.token
           /\ last' = [op |-> "approve", ret |-> "true", approved |-> amount,
                       moved |-> 0]
           /\ UNCHANGED <<chain, difficulty, pending, mining, racing>>

\* Token.transfer_from called on the node's token, with any amount of Amounts
TransferFromCall ==
    \E pair \in Approvals, recipient \in Addresses, amount \in Amounts :
        LET res == TokenTransferFrom(token, pair[2], pair[1], recipient, amount)
            bc == [State EXCEPT !.token = res.token]
            taken == Get(token.balances, pair[1]) - Get(res.token.balances, pair[1])
        IN /\ InRange(bc)
           /\ token' = res.token
           /\ last' = [op |-> "transfer_from",
                       ret |-> IF res.ok THEN "true" ELSE "false",
                       approved |-> ApprovedSoFar, moved |-> MovedSoFar + taken]
           /\ UNCHANGED <<chain, difficulty, pending, mining, racing>>

NextAllowance == ApproveCall \/ TransferFromCall

SpecAllowance == InitLedger /\ [][NextAllowance]_vars

\* C38: a spender never moves more than the owner approved: whatever the
\* integer amounts of the approve and transfer_from calls, no transfer_from
\* increases an allowance, the allowance is not negative after an approve of
\* a non-negative amount, and what the spender has taken from the owner's
\* balance since the last approve does not exceed the amount of that approve.
C38_SpenderWithinApproval ==
    /\ \A spender \in Addresses, owner \in Addresses, recipient \in Addresses,
          amount \in Amounts :
           LET res == TokenTransferFrom(token, spender, owner, recipient, amount)
           IN \A o \in Addresses, sp \in Addresses :
                  GetAllowed(res.token.allowed, o, sp) <= GetAllowed(token.allowed, o, sp)
    /\ ApprovedSoFar >= 0 =>
           /\ \A pair \in Approvals : GetAllowed(token.allowed, pair[1], pair[2]) >= 0
           /\ MovedSoFar <= ApprovedSoFar

(* ------------------------- save, then load ----------------------------- *)

\* the fields of a block that Block.to_dict writes
SavedFields == {"index", "timestamp", "data", "previous_hash", "signature",
                "nonce", "hash"}

\* the Blockchain that load_from_file, called with difficulty d, builds from
\* the file save_to_file wrote of the node's state
Reloaded(d, k) == load_from_file(Snapshot(State), d, k, 1, 1)

\* chain c2 has the blocks of chain c1 in their order, every saved field equal
SameBlocks(c1, c2) ==
    /\ Len(c1) = Len(c2)
    /\ \A i \in 1..Len(c1) : \A f \in SavedFields : c1[i][f] = c2[i][f]

\* C39: saving and then loading is a round trip: in every reachable state
\* load_from_file of what save_to_file wrote gives a chain of the same blocks
\* in the same order, all of index, timestamp, payload, previous_hash,
\* signature, nonce and hash equal, a ledger with the same name, symbol,
\* decimals, total_supply, balances and allowances, and is_chain_valid()
\* gives on the loaded chain what it gives on the saved one. The file does
\* not hold a difficulty: load_from_file is called with any.
C39_SaveLoadRoundTrip ==
    \A d \in Difficulties, k \in PrivateKeys :
        LET loaded == Reloaded(d, k)
        IN /\ SameBlocks(chain, loaded.chain)
           /\ TokenToDict(loaded.token) = TokenToDict(token)
           /\ IsChainValid(loaded.chain, loaded.difficulty)
                  = IsChainValid(chain, difficulty)

(* ------------------------------ queries -------------------------------- *)

\* Token.balance_of (and Blockchain.get_token_balance, which calls it): the
\* value returned and the token after the call; reading self.balances[owner]
\* inserts a missing owner
TokenBalanceOf(tok, owner) ==
    [val |-> Get(tok.balances, owner),
     token |-> [tok EXCEPT !.balances = Touch(tok.balances, owner)]]

\* Token.allowance: reading self.allowed[owner][spender] inserts what is
\* missing
TokenAllowance(tok, owner, spender) ==
    [val |-> GetAllowed(tok.allowed, owner, spender),
     token |-> [tok EXCEPT !.allowed = TouchAllowed(tok.allowed, owner, spender)]]

\* Blockchain.get_all_balances: dict(self.token.balances)
get_all_balances(tok) == tok.balances

\* get_all_balances and the ledger part of the snapshot report of token t2
\* what they report of token t1, the addresses listed included
SameReport(t1, t2) ==
    /\ get_all_balances(t1) = get_all_balances(t2)
    /\ DOMAIN get_all_balances(t1) = DOMAIN get_all_balances(t2)
    /\ TokenToDict(t1) = TokenToDict(t2)

\* C40: queries leave the ledger as it is: balance_of / get_token_balance for
\* any address, one never seen before included, allowance, and a transfer or
\* transfer_from that fails change nothing of what get_all_balances and the
\* ledger of the snapshot report, the set of addresses listed included.
C40_QueriesLeaveLedger ==
    /\ \A owner \in Addresses :
           /\ TokenBalanceOf(token, owner).val = Get(token.balances, owner)
           /\ SameReport(token, TokenBalanceOf(token, owner).token)
    /\ \A owner \in Addresses, spender \in Addresses :
           SameReport(token, TokenAllowance(token, owner, spender).token)
    /\ \A kp \in KeyPairs, recipient \in Addresses, amount \in Amounts :
           LET res == transfer_token(State, kp, recipient, amount, 1, 1)
           IN res.ret = "fail" => SameReport(token, res.bc.token)
    /\ \A spender \in Addresses, owner \in Addresses, recipient \in Addresses,
          amount \in Amounts :
           LET res == TokenTransferFrom(token, spender, owner, recipient, amount)
           IN ~res.ok => SameReport(token, res.token)

====
